---- MODULE Spec2Model ----
(***************************************************************************)
(* Model of the payslip reconciliation code of src/app.py and              *)
(* src/generate_report.py: the duration parser, the business-date rule,    *)
(* the lead counts, the TOTAL-row locator, the working-days probe, the    *)
(* KPI / salary arithmetic and the script run behind the login form.       *)
(*                                                                         *)
(* Text is a sequence of one-character strings, so that strip, lower and   *)
(* the regular-expression searches act on characters as the code's do.     *)
(* Quantities the code holds as floats are exact rationals here: hours are *)
(* counted in seconds (1/3600 h), day counts and rates in halves, money in *)
(* 1/7200 of a currency unit.                                              *)
(***************************************************************************)
EXTENDS Integers, Sequences, FiniteSets, TLC

VARIABLES
    dur_pc,        \* DurationParser: "idle" | "start" | "parsed" | "permuted" | "reparsed"
    dur_val,       \* the cell handed to parse_duration_to_hours
    dur_groups,    \* the unit groups the cell's text is written from, in text order
    dur_orig,      \* the groups of the text first parsed
    dur_first,     \* the result for the text first parsed (seconds)
    dur_result     \* the latest result of parse_duration_to_hours (seconds)

durVars == <<dur_pc, dur_val, dur_groups, dur_orig, dur_first, dur_result>>

VARIABLES
    bd_pc,         \* BusinessDateResolver: "idle" | "start" | "app" | "done"
    bd_ts,         \* a valid timestamp: [date, hour, minute]
    bd_cutoff,     \* the sidebar's cutoff hour
    bd_app,        \* work_date as load_leads_from_google_sheets derives it
    bd_gen         \* business_date as load_qualified_pushed_leads derives it

bdVars == <<bd_pc, bd_ts, bd_cutoff, bd_app, bd_gen>>

VARIABLES
    tr_pc,         \* TotalRowLocator: "idle" | "start" | "found"
    tr_cols,       \* the columns of agent_df
    tr_rows,       \* the rows of agent_df, in file order
    tr_total       \* what find_total_row returned

trVars == <<tr_pc, tr_cols, tr_rows, tr_total>>

VARIABLES
    wd_pc,         \* working-days probe: "idle" | "start" | "done"
    wd_row,        \* the row handed to extract_working_days
    wd_days        \* what extract_working_days returned

wdVars == <<wd_pc, wd_row, wd_days>>

VARIABLES
    pay_pc,            \* PayrollCalculator: "idle" | "start" | "hours" | "kpi" | "done"
    total_row,         \* [found, row]: what find_total_row gave the script
    payable_leads,     \* the payable lead count
    agent_type,        \* "Full-time" | "Part-time"
    hourly_rate,       \* sidebar input, in halves of a currency unit
    kpis_full_amount,  \* sidebar input, in currency units
    working_days,
    payable_hours_raw, \* seconds
    break_hours,       \* seconds
    payable_hours,     \* seconds
    leads_target,      \* in halves of a lead
    performance_pct,   \* the rational [n, d], d > 0
    tier,              \* in hundredths: 0, 50, 80, 100
    kpi_bonus,         \* money, in 1/7200 of a currency unit
    base_salary,       \* money
    total_salary       \* money

payIn == <<total_row, payable_leads, agent_type, hourly_rate, kpis_full_amount>>

payOut == <<working_days, payable_hours_raw, break_hours, payable_hours, leads_target,
            performance_pct, tier, kpi_bonus, base_salary, total_salary>>

payVars == <<pay_pc, payIn, payOut>>

VARIABLES
    ld_pc,             \* LeadAggregator: "idle" | "start" | "loaded" | "refused" |
                       \* "counted" | "reported"
    leads_cols,        \* the columns of the Leads Bank sheet
    leads,             \* its rows, in sheet order
    cutoff_hour,       \* the sidebar's cutoff hour
    leads2,            \* what load_leads_from_google_sheets returned
    load_error,        \* the columns its ValueError names
    lead_agent_choice, \* the agent picked from the Leads Bank
    start_date,
    end_date,
    leads_f,           \* the filtered rows
    lead_counts,       \* [qualified, disqualified, callbacks, payable]
    report_counts      \* what load_qualified_pushed_leads returned, or its error

ldIn == <<leads_cols, leads, cutoff_hour>>

ldVars == <<ld_pc, ldIn, leads2, load_error, lead_agent_choice, start_date, end_date,
            leads_f, lead_counts, report_counts>>

VARIABLES
    run_pc,        \* the script run: "idle" | "wait" (no run; the page waits for the
                   \* user) | "auth" | "main" | "load" | "report" | "process"
    session_state, \* st.session_state: a function on the keys set so far
    event,         \* the widget event the run was started by
    screen,        \* what the last finished run rendered: "none" | "login" | "main" | "full"
    leads_cache,   \* st.cache_data of load_leads_from_google_sheets: <<>> or <<leads2>>
    sheet,         \* the Leads Bank sheet: [cols, rows]
    agent_file,    \* the uploaded agent report: [uploaded, cols, rows]
    shown_error,   \* the st.error / st.warning of the run: [kind, missing]
    snapshot       \* the payroll figures the run computed: [computed, ...]

runIn == <<sheet, agent_file>>

runVars == <<run_pc, session_state, event, screen, leads_cache, runIn, shown_error, snapshot>>

vars == <<durVars, bdVars, trVars, wdVars, payVars, ldVars, runVars>>

(***************************************************************************)
(* Bounds                                                                  *)
(***************************************************************************)
MaxGroups == 3
MaxDate == 2
MaxRows == 2
MaxHalfDays == 2
MaxPayableLeads == 16
MaxLeads == 2

(***************************************************************************)
(* Characters and text                                                     *)
(***************************************************************************)
Digits == <<"0", "1", "2", "3", "4", "5", "6", "7", "8", "9">>

UpperCase == <<"A", "B", "C", "D", "E", "F", "G", "H", "I", "J", "K", "L", "M",
               "N", "O", "P", "Q", "R", "S", "T", "U", "V", "W", "X", "Y", "Z">>

LowerCase == <<"a", "b", "c", "d", "e", "f", "g", "h", "i", "j", "k", "l", "m",
               "n", "o", "p", "q", "r", "s", "t", "u", "v", "w", "x", "y", "z">>

WhiteSpace == {" ", "\t", "\n"}

IsDigit(c) == \E i \in 1..10 : Digits[i] = c

DigitVal(c) == (CHOOSE i \in 1..10 : Digits[i] = c) - 1

IsAlpha(c) == \E i \in 1..26 : UpperCase[i] = c \/ LowerCase[i] = c

LowerChar(c) ==
    IF \E i \in 1..26 : UpperCase[i] = c
    THEN LowerCase[CHOOSE i \in 1..26 : UpperCase[i] = c]
    ELSE c

\* str.lower()
Lower(s) == [i \in 1..Len(s) |-> LowerChar(s[i])]

\* str.strip(): drop leading and trailing whitespace
Strip(s) ==
    LET keep == {i \in 1..Len(s) : s[i] \notin WhiteSpace}
    IN  IF keep = {} THEN <<>>
        ELSE LET lo == CHOOSE i \in keep : \A j \in keep : i <= j
                 hi == CHOOSE i \in keep : \A j \in keep : j <= i
             IN  SubSeq(s, lo, hi)

\* int() of a run of decimal digits
RECURSIVE IntOf(_)
IntOf(ds) ==
    IF ds = <<>> THEN 0
    ELSE 10 * IntOf(SubSeq(ds, 1, Len(ds) - 1)) + DigitVal(ds[Len(ds)])

\* the decimal digits of a natural number
RECURSIVE NatStr(_)
NatStr(n) ==
    IF n < 10 THEN <<Digits[n + 1]>>
    ELSE Append(NatStr(n \div 10), Digits[(n % 10) + 1])

(***************************************************************************)
(* Cells of a data frame.  A cell is missing (NaN / None), a number (held  *)
(* in halves: v = 3 is 1.5) or text.                                       *)
(***************************************************************************)
NaN == [k |-> "nan"]

Num(v) == [k |-> "num", v |-> v]

Str(s) == [k |-> "str", s |-> s]

\* pd.isna
isna(val) == val.k = "nan"

\* str() of a cell: str(nan) is "nan", a float prints with its fraction
str(val) ==
    CASE val.k = "nan" -> <<"n", "a", "n">>
      [] val.k = "str" -> val.s
      [] val.k = "num" ->
            LET a == IF val.v < 0 THEN 0 - val.v ELSE val.v
            IN  (IF val.v < 0 THEN <<"-">> ELSE <<>>)
                \o NatStr(a \div 2) \o <<".">>
                \o (IF a % 2 = 0 THEN <<"0">> ELSE <<"5">>)

safe_lower(x) == Lower(Strip(str(x)))

(***************************************************************************)
(* parse_duration_to_hours                                                 *)
(***************************************************************************)
S_hour == <<"h", "o", "u", "r">>
S_min  == <<"m", "i", "n">>
S_s    == <<"s">>
S_sec  == <<"s", "e", "c">>

\* the text s holds the literal lit at position k
HasAt(s, k, lit) ==
    /\ k + Len(lit) - 1 <= Len(s)
    /\ \A n \in 1..Len(lit) : s[k + n - 1] = lit[n]

\* the end of the greedy \d+ that starts at i
DigitsEnd(s, i) ==
    CHOOSE j \in i..Len(s) :
        /\ \A n \in i..j : IsDigit(s[n])
        /\ (j = Len(s) \/ ~IsDigit(s[j + 1]))

\* the position after the greedy \s* that starts at k
SkipSpace(s, k) ==
    CHOOSE m \in k..(Len(s) + 1) :
        /\ \A n \in k..(m - 1) : s[n] \in WhiteSpace
        /\ (m = Len(s) + 1 \/ s[m] \notin WhiteSpace)

\* (\d+)\s*(lit1|lit2|...) matches with its first character at i
MatchAt(s, i, lits) ==
    /\ IsDigit(s[i])
    /\ \E lit \in lits : HasAt(s, SkipSpace(s, DigitsEnd(s, i) + 1), lit)

\* re_search_int taking the last match instead of the leftmost
re_search_last(s, lits) ==
    LET at == {i \in 1..Len(s) : MatchAt(s, i, lits)}
    IN  IF at = {} THEN 0
        ELSE LET i == CHOOSE i \in at : \A j \in at : j <= i
             IN  IntOf(SubSeq(s, i, DigitsEnd(s, i)))

\* re_search_int with the pattern -?\s*(\d+)..., reading a sign
re_search_signed(s, lits) ==
    LET at == {i \in 1..Len(s) : MatchAt(s, i, lits)}
    IN  IF at = {} THEN 0
        ELSE LET i == CHOOSE i \in at : \A j \in at : i <= j
                 n == IntOf(SubSeq(s, i, DigitsEnd(s, i)))
                 before == {k \in 1..(i - 1) : s[k] \notin WhiteSpace}
             IN  IF before # {} /\ s[CHOOSE k \in before : \A m \in before : m <= k] = "-"
                 THEN 0 - n ELSE n

\* re.search(r"(\d+)\s*(lit...)", s): group 1 of the leftmost match as an
\* int, or 0 where the code leaves its initial 0 because nothing matches
re_search_int(s, lits) ==
    LET at == {i \in 1..Len(s) : MatchAt(s, i, lits)}
    IN  IF at = {} THEN 0
        ELSE LET i == CHOOSE i \in at : \A j \in at : i <= j
             IN  IntOf(SubSeq(s, i, DigitsEnd(s, i)))

Sentinels == {<<"-">>, <<"n", "a">>, <<"n", "/", "a">>, <<>>}

\* the result in seconds: hours + mins / 60.0 + secs / 3600.0 is
\* (3600 * hours + 60 * mins + secs) / 3600
parse_duration_to_hours(val) ==
    IF isna(val) THEN 0
    ELSE LET s == Lower(Strip(str(val)))
         IN  IF s \in Sentinels THEN 0
             ELSE LET hours == re_search_int(s, {S_hour})
                      mins  == re_search_int(s, {S_min})
                      secs  == re_search_int(s, {S_s, S_sec})
                  IN  3600 * hours + 60 * mins + secs

(***************************************************************************)
(* Duration cells.  A text is written from unit groups joined by blanks;   *)
(* each group records the unit it is written in ("none": no unit) and its  *)
(* amount, so the parser's reading of the characters can be compared with  *)
(* what was written.                                                       *)
(***************************************************************************)
Group(t, u, n) == [t |-> t, u |-> u, n |-> n]

GroupPool ==
    { Group(<<"1", " ", "h", "o", "u", "r">>, "hour", 1),
      Group(<<"4", "2", " ", "H", "o", "u", "r", "s">>, "hour", 42),
      Group(<<"3", "5", " ", "m", "i", "n", ".">>, "min", 35),
      Group(<<"9", "m", "i", "n">>, "min", 9),
      Group(<<"4", "4", " ", "s", ".">>, "sec", 44),
      Group(<<"7", " ", " ", "S", "e", "c">>, "sec", 7),
      Group(<<"g", "a", "r", "b", "a", "g", "e">>, "none", 0),
      Group(<<"-">>, "none", 0),
      Group(<<"1", "2">>, "none", 0) }

RECURSIVE Join(_)
Join(gs) ==
    IF gs = <<>> THEN <<>>
    ELSE IF Len(gs) = 1 THEN gs[1].t
    ELSE gs[1].t \o <<" ">> \o Join(Tail(gs))

GroupSeqs == UNION {[1..n -> GroupPool] : n \in 0..MaxGroups}

\* the text as the export holds it: possibly padded with blanks
TextCell(gs, pad) == Str(IF pad THEN <<" ">> \o Join(gs) \o <<" ">> ELSE Join(gs))

DurInit ==
    /\ dur_pc = "start"
    /\ dur_groups \in GroupSeqs
    /\ dur_val \in {NaN, Num(0), Num(17),
                    TextCell(dur_groups, FALSE), TextCell(dur_groups, TRUE)}
    /\ (dur_val.k # "str" => dur_groups = <<>>)
    /\ dur_orig = dur_groups
    /\ dur_first = 0
    /\ dur_result = 0

\* the first call on the cell
ParseDuration ==
    /\ dur_pc = "start"
    /\ dur_result' = parse_duration_to_hours(dur_val)
    /\ dur_first' = dur_result'
    /\ dur_pc' = "parsed"
    /\ UNCHANGED <<dur_val, dur_groups, dur_orig>>

\* the same unit groups written in another order
PermuteGroups ==
    /\ dur_pc = "parsed"
    /\ dur_val.k = "str"
    /\ \E i, j \in 1..Len(dur_groups) :
          /\ i < j
          /\ dur_groups[i] # dur_groups[j]
          /\ dur_groups' = [dur_groups EXCEPT ![i] = dur_groups[j], ![j] = dur_groups[i]]
    /\ dur_val' = TextCell(dur_groups', dur_val.s # Join(dur_groups))
    /\ dur_pc' = "permuted"
    /\ UNCHANGED <<dur_orig, dur_first, dur_result>>

\* the call on the permuted text
ReparseDuration ==
    /\ dur_pc = "permuted"
    /\ dur_result' = parse_duration_to_hours(dur_val)
    /\ dur_pc' = "reparsed"
    /\ UNCHANGED <<dur_val, dur_groups, dur_orig, dur_first>>

DurIdle ==
    /\ dur_pc = "idle"
    /\ dur_val = NaN
    /\ dur_groups = <<>>
    /\ dur_orig = <<>>
    /\ dur_first = 0
    /\ dur_result = 0

DurNext ==
    (ParseDuration \/ PermuteGroups \/ ReparseDuration) /\ UNCHANGED <<bdVars, trVars, wdVars, payVars, ldVars, runVars>>

(***************************************************************************)
(* Business date: (Timestamp - Timedelta(hours = cutoff)).dt.date          *)
(***************************************************************************)
Timestamp(d, h, m) == [k |-> "ts", date |-> d, hour |-> h, minute |-> m]

\* minutes since midnight of date 0
MinutesOf(ts) == 1440 * ts.date + 60 * ts.hour + ts.minute

\* the calendar date of a count of minutes (floor division: dates before
\* date 0 are negative)
DateOfMinutes(m) == m \div 1440

\* business_date with the hours added instead of subtracted
business_date_added(ts, hours) == DateOfMinutes(MinutesOf(ts) + 60 * hours)

business_date(ts, hours) == DateOfMinutes(MinutesOf(ts) - 60 * hours)

\* pd.Timedelta(hours=7) of load_qualified_pushed_leads
ReportCutoffHours == 7

Minutes == {0, 30, 59}

BdInit ==
    /\ bd_pc = "start"
    /\ bd_ts \in {Timestamp(d, h, m) : d \in 0..MaxDate, h \in 0..23, m \in Minutes}
    /\ bd_cutoff \in 0..23
    /\ bd_app = "none"
    /\ bd_gen = "none"

BdIdle ==
    /\ bd_pc = "idle"
    /\ bd_ts = Timestamp(0, 0, 0)
    /\ bd_cutoff = 0
    /\ bd_app = "none"
    /\ bd_gen = "none"

\* app.py: leads2["work_date"]
ResolveApp ==
    /\ bd_pc = "start"
    /\ bd_app' = business_date(bd_ts, bd_cutoff)
    /\ bd_pc' = "app"
    /\ UNCHANGED <<bd_ts, bd_cutoff, bd_gen>>

\* generate_report.py: df["business_date"]
ResolveReport ==
    /\ bd_pc = "app"
    /\ bd_gen' = business_date(bd_ts, ReportCutoffHours)
    /\ bd_pc' = "done"
    /\ UNCHANGED <<bd_ts, bd_cutoff, bd_app>>

BdNext == (ResolveApp \/ ResolveReport) /\ UNCHANGED <<durVars, trVars, wdVars, payVars, ldVars, runVars>>

(***************************************************************************)
(* Numbers in cells                                                        *)
(***************************************************************************)
\* a float in halves, and what stands for "no number" (a ValueError of
\* float(), a NaN of pd.to_numeric)
Float(v) == [ok |-> TRUE, v |-> v]

NoFloat == [ok |-> FALSE, v |-> 0]

\* float() of a text: blanks stripped, an optional sign, digits and an
\* optional fraction .0 or .5; anything else is a ValueError
float_of_text(t) ==
    LET s == Strip(t)
        neg == Len(s) > 0 /\ s[1] = "-"
        u == IF neg THEN Tail(s) ELSE s
        whole == Len(u) > 0 /\ \A i \in 1..Len(u) : IsDigit(u[i])
        frac == /\ Len(u) > 2
                /\ \A i \in 1..(Len(u) - 2) : IsDigit(u[i])
                /\ u[Len(u) - 1] = "."
                /\ u[Len(u)] \in {"0", "5"}
        mag == IF whole THEN 2 * IntOf(u)
               ELSE 2 * IntOf(SubSeq(u, 1, Len(u) - 2)) + (IF u[Len(u)] = "5" THEN 1 ELSE 0)
    IN  IF whole \/ frac THEN Float(IF neg THEN 0 - mag ELSE mag) ELSE NoFloat

\* float(val) of a cell that is not missing
float_of(val) == IF val.k = "num" THEN Float(val.v) ELSE float_of_text(val.s)

\* int() of a float in halves: truncation toward zero
int_of(v) == IF v < 0 THEN 0 - ((0 - v) \div 2) ELSE v \div 2

\* pd.to_numeric(..., errors="coerce") of one cell: NaN for a missing cell
\* and for text that is no number
to_numeric(val) == IF isna(val) THEN NoFloat ELSE float_of(val)

(***************************************************************************)
(* is_date_value                                                           *)
(***************************************************************************)
AllDigits(s, lo, hi) == \A i \in lo..hi : IsDigit(s[i])

AllAlpha(s, lo, hi) == \A i \in lo..hi : IsAlpha(s[i])

\* ^\d{1,2}[-/]\d{1,2}[-/]\d{2,4}$
MatchDMY(s) ==
    \E a \in 1..2, b \in 1..2, c \in 2..4 :
        /\ Len(s) = a + b + c + 2
        /\ AllDigits(s, 1, a)
        /\ s[a + 1] \in {"-", "/"}
        /\ AllDigits(s, a + 2, a + b + 1)
        /\ s[a + b + 2] \in {"-", "/"}
        /\ AllDigits(s, a + b + 3, a + b + c + 2)

\* ^\d{1,2}-[A-Za-z]{3}$
MatchDMon(s) ==
    \E a \in 1..2 :
        /\ Len(s) = a + 4
        /\ AllDigits(s, 1, a)
        /\ s[a + 1] = "-"
        /\ AllAlpha(s, a + 2, a + 4)

\* ^[A-Za-z]{3}-\d{1,2}$
MatchMonD(s) ==
    \E a \in 1..2 :
        /\ Len(s) = a + 4
        /\ AllAlpha(s, 1, 3)
        /\ s[4] = "-"
        /\ AllDigits(s, 5, a + 4)

\* whether pd.to_datetime(s) succeeds, for the texts of this model: pandas
\* accepts the ISO form YYYY-MM-DD and rejects words
pd_to_datetime_ok(s) ==
    /\ Len(s) = 10
    /\ AllDigits(s, 1, 4) /\ s[5] = "-"
    /\ AllDigits(s, 6, 7) /\ s[8] = "-"
    /\ AllDigits(s, 9, 10)

is_date_value(val) ==
    IF isna(val) THEN FALSE
    ELSE LET s == Strip(str(val))
         IN  IF s = <<>> \/ s = <<"-">> THEN FALSE
             ELSE IF MatchDMY(s) \/ MatchDMon(s) \/ MatchMonD(s) THEN TRUE
             ELSE pd_to_datetime_ok(s)

(***************************************************************************)
(* find_total_row.  A data frame is a set of columns and a sequence of     *)
(* rows, each row a function from the columns to cells; a row is named by  *)
(* its position, and 0 stands for None.                                    *)
(***************************************************************************)
DayDate == "Day/date"
DaysWork == "Days Work"

Found(i, m) == [row |-> i, method |-> m]

\* the least and the greatest element of a set of positions
MinOf(S) == CHOOSE i \in S : \A j \in S : i <= j

MaxOf(S) == CHOOSE i \in S : \A j \in S : j <= i

\* idxmax returning the last position of the maximum
idxmax_last(numeric) ==
    LET have == {i \in DOMAIN numeric : numeric[i].ok}
    IN  MaxOf({i \in have : \A j \in have : numeric[j].v <= numeric[i].v})

\* Series.idxmax(): the first position holding the greatest number, NaN skipped
idxmax(numeric) ==
    LET have == {i \in DOMAIN numeric : numeric[i].ok}
    IN  MinOf({i \in have : \A j \in have : numeric[j].v <= numeric[i].v})

\* find_total_row with Method 3 entered whenever some Days Work is numeric
find_total_row_any_numeric(cols, rows) ==
    LET n == Len(rows)
        dash == {i \in 1..n : Strip(str(rows[i][DayDate])) = <<"-">>}
        empty == {i \in 1..n : isna(rows[i][DayDate]) \/ Strip(str(rows[i][DayDate])) = <<>>}
        numeric == [i \in 1..n |-> to_numeric(rows[i][DaysWork])]
    IN  IF n = 0 THEN Found(0, 0)
        ELSE IF DayDate \in cols /\ dash # {} THEN Found(MaxOf(dash), 1)
        ELSE IF DayDate \in cols /\ empty # {} THEN Found(MaxOf(empty), 2)
        ELSE IF DaysWork \in cols /\ (\E i \in 1..n : numeric[i].ok)
        THEN Found(MinOf({i \in 1..n : numeric[i].ok
                            /\ \A j \in 1..n : numeric[j].ok => numeric[j].v <= numeric[i].v}), 3)
        ELSE IF DayDate \in cols /\ ~is_date_value(rows[n][DayDate]) THEN Found(n, 4)
        ELSE Found(n, 5)

\* find_total_row without its last-row fallback
find_total_row_no_fallback(cols, rows) ==
    LET n == Len(rows)
        dash == {i \in 1..n : Strip(str(rows[i][DayDate])) = <<"-">>}
        empty == {i \in 1..n : isna(rows[i][DayDate]) \/ Strip(str(rows[i][DayDate])) = <<>>}
        numeric == [i \in 1..n |-> to_numeric(rows[i][DaysWork])]
        positive == {i \in 1..n : numeric[i].ok /\ numeric[i].v > 0}
    IN  IF n = 0 THEN Found(0, 0)
        ELSE IF DayDate \in cols /\ dash # {} THEN Found(MaxOf(dash), 1)
        ELSE IF DayDate \in cols /\ empty # {} THEN Found(MaxOf(empty), 2)
        ELSE IF DaysWork \in cols /\ positive # {} THEN Found(idxmax(numeric), 3)
        ELSE IF DayDate \in cols /\ ~is_date_value(rows[n][DayDate]) THEN Found(n, 4)
        ELSE Found(0, 0)

\* find_total_row with Method 3 tried before Methods 1 and 2
find_total_row_days_first(cols, rows) ==
    LET n == Len(rows)
        dash == {i \in 1..n : Strip(str(rows[i][DayDate])) = <<"-">>}
        empty == {i \in 1..n : isna(rows[i][DayDate]) \/ Strip(str(rows[i][DayDate])) = <<>>}
        numeric == [i \in 1..n |-> to_numeric(rows[i][DaysWork])]
        positive == {i \in 1..n : numeric[i].ok /\ numeric[i].v > 0}
    IN  IF n = 0 THEN Found(0, 0)
        ELSE IF DaysWork \in cols /\ positive # {} THEN Found(idxmax(numeric), 3)
        ELSE IF DayDate \in cols /\ dash # {} THEN Found(MaxOf(dash), 1)
        ELSE IF DayDate \in cols /\ empty # {} THEN Found(MaxOf(empty), 2)
        ELSE IF DayDate \in cols /\ ~is_date_value(rows[n][DayDate]) THEN Found(n, 4)
        ELSE Found(n, 5)

find_total_row(cols, rows) ==
    LET n == Len(rows)
        \* Method 1: agent_df["Day/date"].astype(str).str.strip() == "-"
        dash == {i \in 1..n : Strip(str(rows[i][DayDate])) = <<"-">>}
        \* Method 2: isna() | (astype(str).str.strip() == "")
        empty == {i \in 1..n : isna(rows[i][DayDate]) \/ Strip(str(rows[i][DayDate])) = <<>>}
        \* Method 3: pd.to_numeric(agent_df["Days Work"], errors="coerce") > 0
        numeric == [i \in 1..n |-> to_numeric(rows[i][DaysWork])]
        positive == {i \in 1..n : numeric[i].ok /\ numeric[i].v > 0}
    IN  IF n = 0 THEN Found(0, 0)
        ELSE IF DayDate \in cols /\ dash # {} THEN Found(MaxOf(dash), 1)
        ELSE IF DayDate \in cols /\ empty # {} THEN Found(MaxOf(empty), 2)
        ELSE IF DaysWork \in cols /\ positive # {} THEN Found(idxmax(numeric), 3)
        ELSE IF DayDate \in cols /\ ~is_date_value(rows[n][DayDate]) THEN Found(n, 4)
        ELSE Found(n, 5)

DayDateCells ==
    { NaN,
      Str(<<" ", "-", " ">>),
      Str(<<" ">>),
      Str(<<"5", "-", "J", "a", "n">>),
      Str(<<"2", "0", "2", "6", "-", "0", "1", "-", "0", "5">>),
      Str(<<"T", "o", "t", "a", "l">>) }

DaysWorkCells ==
    { NaN, Num(0), Num(0 - 2), Num(2), Str(<<"2", "2">>), Str(<<"a", "b", "c">>) }

CellsOf(c) == IF c = DayDate THEN DayDateCells ELSE DaysWorkCells

\* the rows a frame with columns cols can hold
RowsOver(cols) == {r \in [cols -> DayDateCells \cup DaysWorkCells] : \A c \in cols : r[c] \in CellsOf(c)}

TrInit ==
    /\ tr_pc = "start"
    /\ tr_cols \in SUBSET {DayDate, DaysWork}
    /\ tr_rows \in UNION {[1..n -> RowsOver(tr_cols)] : n \in 0..MaxRows}
    /\ tr_total = Found(0, 0)

TrIdle ==
    /\ tr_pc = "idle"
    /\ tr_cols = {}
    /\ tr_rows = <<>>
    /\ tr_total = Found(0, 0)

\* total_row = find_total_row(pay_agent)
FindTotalRow ==
    /\ tr_pc = "start"
    /\ tr_total' = find_total_row(tr_cols, tr_rows)
    /\ tr_pc' = "found"
    /\ UNCHANGED <<tr_cols, tr_rows>>

TrNext == FindTotalRow /\ UNCHANGED <<durVars, bdVars, wdVars, payVars, ldVars, runVars>>

(***************************************************************************)
(* extract_working_days                                                    *)
(***************************************************************************)
possible_columns ==
    <<"Days Work", "Days", "Working Days", "Work Days", "Days Worked", "Total Days">>

\* whether column k of possible_columns yields the return value: present,
\* not missing, int(float(val)) raises nothing and is > 0
Qualifies(row, k) ==
    /\ possible_columns[k] \in DOMAIN row
    /\ ~isna(row[possible_columns[k]])
    /\ float_of(row[possible_columns[k]]).ok
    /\ int_of(float_of(row[possible_columns[k]]).v) > 0

\* extract_working_days testing float(val) > 0 before truncating
extract_working_days_float_test(row) ==
    LET ok == {k \in 1..Len(possible_columns) :
                  /\ possible_columns[k] \in DOMAIN row
                  /\ ~isna(row[possible_columns[k]])
                  /\ float_of(row[possible_columns[k]]).ok
                  /\ float_of(row[possible_columns[k]]).v > 0}
    IN  IF ok = {} THEN 0 ELSE int_of(float_of(row[possible_columns[MinOf(ok)]]).v)

extract_working_days(row) ==
    LET ok == {k \in 1..Len(possible_columns) : Qualifies(row, k)}
    IN  IF ok = {} THEN 0 ELSE int_of(float_of(row[possible_columns[MinOf(ok)]]).v)

DayCountCells ==
    {NaN, Str(<<"a", "b", "c">>), Str(<<" ", "3", " ">>)}
        \cup {Num(v) : v \in (0 - 1)..MaxHalfDays}

PossibleColumnSet == {possible_columns[k] : k \in 1..Len(possible_columns)}

WdInit ==
    /\ wd_pc = "start"
    /\ \E cols \in SUBSET PossibleColumnSet : wd_row \in [cols -> DayCountCells]
    /\ wd_days = 0

WdIdle ==
    /\ wd_pc = "idle"
    /\ wd_row = <<>>
    /\ wd_days = 0

\* working_days = extract_working_days(total_row)
ExtractWorkingDays ==
    /\ wd_pc = "start"
    /\ wd_days' = extract_working_days(wd_row)
    /\ wd_pc' = "done"
    /\ UNCHANGED wd_row

WdNext == ExtractWorkingDays /\ UNCHANGED <<durVars, bdVars, trVars, payVars, ldVars, runVars>>

(***************************************************************************)
(* The script's hours, KPI and salary arithmetic                           *)
(***************************************************************************)
\* money is counted in 1/MoneyScale of a currency unit: a rate in halves
\* times a duration in seconds is a whole number of these
MoneyScale == 2 * 3600

PayableT == "Payable (t)"
BreakT == "Break (t)"

\* Series.get(col, default)
get(row, col, default) == IF col \in DOMAIN row THEN row[col] ELSE default

max(a, b) == IF a >= b THEN a ELSE b

\* payable hours without the floor at zero
net_hours_unfloored(raw, brk) == raw - brk

\* payable_hours = max(0.0, payable_hours_raw - break_hours)
net_hours(raw, brk) == max(0, raw - brk)

\* target_per_day, in halves of a lead
target_per_day(type) == IF type = "Full-time" THEN 4 ELSE 3

Ratio(n, d) == [n |-> n, d |-> d]

\* r < k for a rational r with a positive denominator
Below(r, k) == r.n < k * r.d

\* performance_pct without the test of leads_target
performance_of_unguarded(payable, target) == Ratio(200 * payable, target)

\* (payable_leads / leads_target * 100.0) if leads_target > 0 else 0.0
performance_of(payable, target) ==
    IF target > 0 THEN Ratio(200 * payable, target) ELSE Ratio(0, 1)

\* the tier chain with <= in place of <
tier_of_inclusive(pct) ==
    IF pct.n <= 60 * pct.d THEN 0
    ELSE IF pct.n <= 80 * pct.d THEN 50
    ELSE IF pct.n <= 100 * pct.d THEN 80
    ELSE 100

tier_of(pct) ==
    IF Below(pct, 60) THEN 0
    ELSE IF Below(pct, 80) THEN 50
    ELSE IF Below(pct, 100) THEN 80
    ELSE 100

\* total_salary with both terms cut to whole currency units before the sum
total_salary_rounded(base, bonus) ==
    MoneyScale * (base \div MoneyScale) + MoneyScale * (bonus \div MoneyScale)

total_salary_of(base, bonus) == base + bonus

NoRow == [found |-> FALSE, row |-> <<>>]

FoundRow(r) == [found |-> TRUE, row |-> r]

T_72h == <<"7", "2", " ", "h", "o", "u", "r", "s">>
T_8h56m10s ==
    <<"8", " ", "h", "o", "u", "r", "s", " ", "5", "6", " ", "m", "i", "n", ".",
      " ", "1", "0", " ", "s", ".">>
T_1h30m == <<"1", " ", "h", "o", "u", "r", "s", " ", "3", "0", " ", "m", "i", "n", ".">>
T_80h == <<"8", "0", " ", "h", "o", "u", "r", "s">>

TotalRows ==
    { [c \in {DaysWork, PayableT, BreakT} |->
          CASE c = DaysWork -> d [] c = PayableT -> p [] c = BreakT -> b] :
      d \in {NaN, Num(10), Num(20)},
      p \in {Str(T_72h), Str(T_8h56m10s), Str(<<"-">>)},
      b \in {Str(T_1h30m), Str(T_80h), Str(<<"-">>)} }
    \cup {[c \in {DaysWork, PayableT} |-> IF c = DaysWork THEN Num(20) ELSE Str(T_72h)]}

PayInit ==
    /\ pay_pc = "start"
    /\ total_row \in {NoRow} \cup {FoundRow(r) : r \in TotalRows}
    /\ payable_leads \in 0..MaxPayableLeads
    /\ agent_type \in {"Full-time", "Part-time"}
    /\ hourly_rate \in {0, 20, 25}
    /\ kpis_full_amount \in {0, 1000}
    /\ working_days = 0
    /\ payable_hours_raw = 0
    /\ break_hours = 0
    /\ payable_hours = 0
    /\ leads_target = 0
    /\ performance_pct = Ratio(0, 1)
    /\ tier = 0
    /\ kpi_bonus = 0
    /\ base_salary = 0
    /\ total_salary = 0

PayIdle ==
    /\ pay_pc = "idle"
    /\ total_row = NoRow
    /\ payable_leads = 0
    /\ agent_type = "Full-time"
    /\ hourly_rate = 0
    /\ kpis_full_amount = 0
    /\ working_days = 0
    /\ payable_hours_raw = 0
    /\ break_hours = 0
    /\ payable_hours = 0
    /\ leads_target = 0
    /\ performance_pct = Ratio(0, 1)
    /\ tier = 0
    /\ kpi_bonus = 0
    /\ base_salary = 0
    /\ total_salary = 0

\* if total_row is not None: ... else: ...
ExtractHours ==
    /\ pay_pc = "start"
    /\ IF total_row.found
       THEN /\ working_days' = extract_working_days(total_row.row)
            /\ payable_hours_raw' = parse_duration_to_hours(get(total_row.row, PayableT, Num(0)))
            /\ break_hours' = parse_duration_to_hours(get(total_row.row, BreakT, Num(0)))
            /\ payable_hours' = net_hours(payable_hours_raw', break_hours')
       ELSE /\ working_days' = 0
            /\ payable_hours_raw' = 0
            /\ payable_hours' = 0
            /\ break_hours' = 0
    /\ pay_pc' = "hours"
    /\ UNCHANGED <<payIn, leads_target, performance_pct, tier, kpi_bonus, base_salary,
                   total_salary>>

\* target_per_day, leads_target, performance_pct and the tier chain
ComputeKpi ==
    /\ pay_pc = "hours"
    /\ leads_target' = working_days * target_per_day(agent_type)
    /\ performance_pct' = performance_of(payable_leads, leads_target')
    /\ tier' = tier_of(performance_pct')
    /\ pay_pc' = "kpi"
    /\ UNCHANGED <<payIn, working_days, payable_hours_raw, break_hours, payable_hours,
                   kpi_bonus, base_salary, total_salary>>

\* kpi_bonus, base_salary, total_salary
ComputeSalary ==
    /\ pay_pc = "kpi"
    /\ kpi_bonus' = kpis_full_amount * tier * (MoneyScale \div 100)
    /\ base_salary' = hourly_rate * payable_hours
    /\ total_salary' = total_salary_of(base_salary', kpi_bonus')
    /\ pay_pc' = "done"
    /\ UNCHANGED <<payIn, working_days, payable_hours_raw, break_hours, payable_hours,
                   leads_target, performance_pct, tier>>

PayNext ==
    (ExtractHours \/ ComputeKpi \/ ComputeSalary)
        /\ UNCHANGED <<durVars, bdVars, trVars, wdVars, ldVars, runVars>>

(***************************************************************************)
(* Leads: load_leads_from_google_sheets and the script's filter and counts *)
(* (src/app.py), load_qualified_pushed_leads (src/generate_report.py)      *)
(***************************************************************************)
TimestampCol == "Timestamp"
AgentName == "Agent Name"
LeadResult == "Lead Result"
LeadStatus == "Lead Status"
PushedToClient == "Pushed to Client"
WorkDate == "work_date"

required_leads_cols == <<TimestampCol, AgentName, LeadResult>>

T_qualified == <<"q", "u", "a", "l", "i", "f", "i", "e", "d">>
T_disqualified == <<"d", "i", "s">> \o T_qualified
T_call_back == <<"c", "a", "l", "l", " ", "b", "a", "c", "k">>
T_pushed_to_client ==
    <<"p", "u", "s", "h", "e", "d", " ", "t", "o", " ", "c", "l", "i", "e", "n", "t">>

\* the values the script takes for "pushed"
pushed_values ==
    { <<"y", "e", "s">>, <<"y">>, <<"t", "r", "u", "e">>, <<"1">>,
      <<"p", "u", "s", "h", "e", "d">> }

\* a date as a cell
Date(d) == [k |-> "date", d |-> d]

\* pd.to_datetime(..., errors="coerce") of one cell: a timestamp stays, a
\* missing cell and text that is no time become NaT
to_datetime_coerce(val) == IF val.k = "ts" THEN val ELSE NaN

\* the positions of seq that satisfy keep, as a sequence in the same order
RECURSIVE Filter(_, _)
Filter(seq, keep) ==
    IF seq = <<>> THEN <<>>
    ELSE (IF keep[1] THEN <<seq[1]>> ELSE <<>>)
         \o Filter(Tail(seq), [i \in 1..(Len(seq) - 1) |-> keep[i + 1]])

\* the rows of a frame at the positions S, in the frame's order
Take(frame, S) == Filter(frame, [i \in 1..Len(frame) |-> i \in S])

\* load_rows with work_date taken from the timestamp as it stands
load_rows_unshifted(cols, rows, cutoff) ==
    LET kept == Take(rows, {i \in 1..Len(rows) : rows[i][TimestampCol].k = "ts"})
    IN  [i \in 1..Len(kept) |->
            [c \in cols \cup {WorkDate} |->
                IF c = WorkDate THEN Date(kept[i][TimestampCol].date)
                ELSE IF c \in {AgentName, PushedToClient} THEN Str(Strip(str(kept[i][c])))
                ELSE kept[i][c]]]

\* the body of load_leads_from_google_sheets after the required-columns test
load_rows(cols, rows, cutoff) ==
    LET parsed == [i \in 1..Len(rows) |->
                      [rows[i] EXCEPT ![TimestampCol] = to_datetime_coerce(@)]]
        kept == Take(parsed, {i \in 1..Len(parsed) : ~isna(parsed[i][TimestampCol])})
    IN  [i \in 1..Len(kept) |->
            [c \in cols \cup {WorkDate} |->
                IF c = WorkDate THEN Date(business_date(kept[i][TimestampCol], cutoff))
                ELSE IF c = AgentName THEN Str(Strip(str(kept[i][c])))
                ELSE IF c = PushedToClient THEN Str(Strip(str(kept[i][c])))
                ELSE kept[i][c]]]

IsQualified(r) == safe_lower(r[LeadResult]) = T_qualified

\* payable_leads: the qualified count, narrowed to the pushed rows only when
\* the frame has a "Pushed to Client" column
payable_leads_of(cols, frame) ==
    LET n == Len(frame)
        pushed_yes(r) == safe_lower(r[PushedToClient]) \in pushed_values
    IN  IF PushedToClient \in cols
        THEN Cardinality({i \in 1..n : IsQualified(frame[i]) /\ pushed_yes(frame[i])})
        ELSE Cardinality({i \in 1..n : IsQualified(frame[i])})

Counts(q, d, c, p) == [qualified |-> q, disqualified |-> d, callbacks |-> c, payable |-> p]

\* the words of a text: str.split()
RECURSIVE Words(_)
Words(s) ==
    LET t == Strip(s)
        gaps == {i \in 1..Len(t) : t[i] \in WhiteSpace}
    IN  IF t = <<>> THEN <<>>
        ELSE IF gaps = {} THEN <<t>>
        ELSE <<SubSeq(t, 1, MinOf(gaps) - 1)>> \o Words(SubSeq(t, MinOf(gaps), Len(t)))

\* " ".join(x.split()[:2])
short_name(s) ==
    LET w == Words(s)
    IN  IF Len(w) = 0 THEN <<>>
        ELSE IF Len(w) = 1 THEN w[1]
        ELSE w[1] \o <<" ">> \o w[2]

\* norm, and astype(str).str.strip().str.lower() on a column
norm(x) == Lower(Strip(str(x)))

ReportError(e) == [ok |-> FALSE, error |-> e, counts |-> <<>>]

\* load_qualified_pushed_leads: the group sizes by (short_name,
\* business_date), or the exception that ends it. pd.to_datetime is called
\* without errors="coerce": text that is no time raises; a missing
\* Timestamp becomes NaT and groupby drops its row.
load_qualified_pushed_leads(cols, rows) ==
    LET picked(r) == norm(r[LeadResult]) = T_qualified /\ norm(r[LeadStatus]) = T_pushed_to_client
        df == Take(rows, {i \in 1..Len(rows) : picked(rows[i])})
        dated == {i \in 1..Len(df) : df[i][TimestampCol].k = "ts"}
        key(i) == <<short_name(str(df[i][AgentName])),
                    business_date(df[i][TimestampCol], ReportCutoffHours)>>
        keys == {key(i) : i \in dated}
    IN  IF {LeadResult, LeadStatus, TimestampCol, AgentName} \ cols # {}
        THEN ReportError("KeyError")
        ELSE IF \E i \in 1..Len(df) : df[i][TimestampCol].k = "str"
        THEN ReportError("ValueError")
        ELSE [ok |-> TRUE, error |-> "",
              counts |-> [g \in keys |-> Cardinality({i \in dated : key(i) = g})]]

T_Jane == <<"J", "a", "n", "e", " ", "D", "o", "e", " ">>
T_Bob == <<"B", "o", "b">>

ResultCells ==
    { Str(<<" ", "Q", "u", "a", "l", "i", "f", "i", "e", "d">>),
      Str(T_disqualified),
      Str(<<"C", "a", "l", "l", " ", "B", "a", "c", "k">>) }

StatusCells ==
    { Str(<<"P", "u", "s", "h", "e", "d", " ", "t", "o", " ", "C", "l", "i", "e", "n", "t", " ">>),
      Str(<<"P", "e", "n", "d", "i", "n", "g">>) }

PushedCells == {Str(<<"Y", "e", "s">>), Str(<<"n", "o">>)}

T_Qualified == <<" ", "Q", "u", "a", "l", "i", "f", "i", "e", "d">>
T_Pushed_to_Client ==
    <<"P", "u", "s", "h", "e", "d", " ", "t", "o", " ", "C", "l", "i", "e", "n", "t", " ">>

\* a row of a sheet with columns cols
LeadRow(cols, ts, agent, result, status, pushed) ==
    [c \in cols |->
        CASE c = TimestampCol -> ts
          [] c = AgentName -> agent
          [] c = LeadResult -> result
          [] c = LeadStatus -> status
          [] c = PushedToClient -> pushed]

\* the rows a sheet with columns cols can hold: every row of the first
\* agent, one row of another agent, one row whose Timestamp is no time
LeadPool(cols) ==
    { LeadRow(cols, ts, Str(T_Jane), result, status, pushed) :
        ts \in {Timestamp(1, 6, 30), Timestamp(1, 8, 0)},
        result \in ResultCells, status \in StatusCells, pushed \in PushedCells }
    \cup { LeadRow(cols, Timestamp(1, 8, 0), Str(T_Bob), Str(T_Qualified),
                   Str(T_Pushed_to_Client), Str(<<"Y", "e", "s">>)),
           LeadRow(cols, Str(<<"t", "b", "d">>), Str(T_Jane), Str(T_Qualified),
                   Str(T_Pushed_to_Client), Str(<<"Y", "e", "s">>)) }

Required == {TimestampCol, AgentName, LeadResult}

Schemas ==
    { Required \cup {LeadStatus},
      Required \cup {PushedToClient},
      Required,
      {TimestampCol, AgentName, LeadStatus} }

LdInit ==
    /\ ld_pc = "start"
    /\ leads_cols \in Schemas
    /\ leads \in UNION {[1..n -> LeadPool(leads_cols)] : n \in 0..MaxLeads}
    /\ cutoff_hour \in {0, 7}
    /\ leads2 = <<>>
    /\ load_error = <<>>
    /\ lead_agent_choice = <<>>
    /\ start_date = 0
    /\ end_date = 0
    /\ leads_f = <<>>
    /\ lead_counts = Counts(0, 0, 0, 0)
    /\ report_counts = ReportError("")

LdIdle ==
    /\ ld_pc = "idle"
    /\ leads_cols = {}
    /\ leads = <<>>
    /\ cutoff_hour = 0
    /\ leads2 = <<>>
    /\ load_error = <<>>
    /\ lead_agent_choice = <<>>
    /\ start_date = 0
    /\ end_date = 0
    /\ leads_f = <<>>
    /\ lead_counts = Counts(0, 0, 0, 0)
    /\ report_counts = ReportError("")

\* leads2 = load_leads_from_google_sheets(leads_url, cutoff_hour): a missing
\* required column raises ValueError and the script stops
LoadLeads ==
    /\ ld_pc = "start"
    /\ LET missing == Take(required_leads_cols,
                           {i \in 1..Len(required_leads_cols) :
                               required_leads_cols[i] \notin leads_cols})
       IN  IF missing # <<>>
           THEN /\ load_error' = missing
                /\ leads2' = <<>>
                /\ ld_pc' = "refused"
           ELSE /\ load_error' = <<>>
                /\ leads2' = load_rows(leads_cols, leads, cutoff_hour)
                /\ ld_pc' = "loaded"
    /\ UNCHANGED <<ldIn, lead_agent_choice, start_date, end_date, leads_f, lead_counts,
                   report_counts>>

\* the agent and date-range widgets, the filter and the four counts; the
\* script stops before them when leads2 names no agent
FilterAndCount ==
    /\ ld_pc = "loaded"
    /\ leads2 # <<>>
    /\ \E i \in 1..Len(leads2), s \in 0..1, e \in 0..1 :
          /\ s <= e
          /\ lead_agent_choice' = leads2[i][AgentName].s
          /\ start_date' = s
          /\ end_date' = e
    /\ LET in_range(r) ==
               /\ Strip(str(r[AgentName])) = Strip(lead_agent_choice')
               /\ r[WorkDate].d >= start_date'
               /\ r[WorkDate].d <= end_date'
           result_is(t) ==
               Cardinality({i \in 1..Len(leads_f') : safe_lower(leads_f'[i][LeadResult]) = t})
       IN  /\ leads_f' = Take(leads2, {i \in 1..Len(leads2) : in_range(leads2[i])})
           /\ lead_counts' = Counts(result_is(T_qualified), result_is(T_disqualified),
                                    result_is(T_call_back),
                                    payable_leads_of(leads_cols, leads_f'))
    /\ ld_pc' = "counted"
    /\ UNCHANGED <<ldIn, leads2, load_error, report_counts>>

\* src/generate_report.py on the same sheet
ReportLeads ==
    /\ ld_pc = "start"
    /\ report_counts' = load_qualified_pushed_leads(leads_cols, leads)
    /\ ld_pc' = "reported"
    /\ UNCHANGED <<ldIn, leads2, load_error, lead_agent_choice, start_date, end_date,
                   leads_f, lead_counts>>

LdNext ==
    (LoadLeads \/ FilterAndCount \/ ReportLeads)
        /\ UNCHANGED <<durVars, bdVars, trVars, wdVars, payVars, runVars>>

(***************************************************************************)
(* The script of src/app.py under Streamlit.  Every widget event starts a  *)
(* run of the script from its top; st.rerun() starts the next run at once  *)
(* with no button pressed, st.stop() ends the run.  st.session_state and   *)
(* st.cache_data outlive the run.  The modelled session leaves the sidebar *)
(* at Full-time, rate 10, full KPI amount 1000 and the default cutoff, and *)
(* its two exports name one agent, so each selectbox offers one option and *)
(* the default date range spans every business date.                       *)
(***************************************************************************)
APP_USERNAME == "admin"
APP_PASSWORD == "Dfu-va@admin"

NameCol == "Name"

required_pay_cols == <<DayDate, NameCol>>

\* cutoff_hour = st.number_input(..., value=7)
SidebarCutoff == 7

SidebarRate == 2 * 10

SidebarFullAmount == 10 * 100

Event(kind, u, p) == [kind |-> kind, username |-> u, password |-> p]

\* a run that no button started
NoEvent == Event("rerun", "", "")

Usernames == {APP_USERNAME, "guest"}

Passwords == {APP_PASSWORD, "admin"}

\* the events the widgets of a rendered page can send
EventsOn(scr) ==
    CASE scr = "none" -> {Event("open", "", "")}
      [] scr = "login" ->
            {Event(k, u, p) : k \in {"login", "clear"}, u \in Usernames, p \in Passwords}
      [] scr = "main" -> {Event(k, "", "") : k \in {"refresh", "logout", "input"}}
      [] scr = "full" -> {Event(k, "", "") : k \in {"refresh", "logout", "input", "reset"}}

NoError == [kind |-> "none", missing |-> <<>>]

Error(kind, missing) == [kind |-> kind, missing |-> missing]

NoSnapshot ==
    [computed |-> FALSE, working_days |-> 0, payable_hours |-> 0, payable_leads |-> 0,
     tier |-> 0, total_salary |-> 0]

\* the figures of the script from the total row and the payable lead count
payroll_of(trow, payable, type, rate, full) ==
    LET wd == IF trow.found THEN extract_working_days(trow.row) ELSE 0
        raw == parse_duration_to_hours(get(trow.row, PayableT, Num(0)))
        brk == parse_duration_to_hours(get(trow.row, BreakT, Num(0)))
        hours == IF trow.found THEN net_hours(raw, brk) ELSE 0
        pct == performance_of(payable, wd * target_per_day(type))
        bonus == full * tier_of(pct) * (MoneyScale \div 100)
    IN  [computed |-> TRUE, working_days |-> wd, payable_hours |-> hours,
         payable_leads |-> payable, tier |-> tier_of(pct),
         total_salary |-> total_salary_of(rate * hours, bonus)]

T_Pending == <<"P", "e", "n", "d", "i", "n", "g">>

\* the Leads Bank sheets of the session: empty, or one qualified lead that
\* neither indicator marks as pushed
Sheets ==
    { [cols |-> cols, rows |-> rows] :
        cols \in Schemas,
        rows \in {<<>>} }
    \cup
    { [cols |-> cols,
       rows |-> <<LeadRow(cols, Timestamp(1, 8, 0), Str(T_Jane), Str(T_Qualified),
                          Str(T_Pending), Str(<<"n", "o">>))>>] : cols \in Schemas }

ReportColumns == {NameCol, DayDate, DaysWork, PayableT, BreakT}

\* the TOTAL row of the agent, on the columns the export has
ReportRow(cols) ==
    [c \in cols |->
        CASE c = NameCol -> Str(T_Jane)
          [] c = DayDate -> Str(<<"-">>)
          [] c = DaysWork -> Num(2 * 10)
          [] c = PayableT -> Str(T_72h)
          [] c = BreakT -> Str(T_1h30m)]

NoFile == [uploaded |-> FALSE, cols |-> {}, rows |-> <<>>]

File(cols) == [uploaded |-> TRUE, cols |-> cols, rows |-> <<ReportRow(cols)>>]

\* no upload, the full export, and the export with one column left out
AgentFiles ==
    {NoFile, File(ReportColumns)} \cup {File(ReportColumns \ {c}) : c \in ReportColumns}

RunInit ==
    /\ run_pc = "wait"
    /\ session_state = [k \in {} |-> FALSE]
    /\ event = NoEvent
    /\ screen = "none"
    /\ leads_cache = <<>>
    /\ sheet \in Sheets
    /\ agent_file \in AgentFiles
    /\ shown_error = NoError
    /\ snapshot = NoSnapshot

RunIdle ==
    /\ run_pc = "idle"
    /\ session_state = [k \in {} |-> FALSE]
    /\ event = NoEvent
    /\ screen = "none"
    /\ leads_cache = <<>>
    /\ sheet = [cols |-> {}, rows |-> <<>>]
    /\ agent_file = NoFile
    /\ shown_error = NoError
    /\ snapshot = NoSnapshot

\* the credentials test with the password left out
credentials_ok_username_only(username, password) == username = APP_USERNAME

\* username == APP_USERNAME and password == APP_PASSWORD
credentials_ok(username, password) ==
    username = APP_USERNAME /\ password = APP_PASSWORD

\* the user acts on a widget of the rendered page: the script runs again
\* from its top, with nothing of the last run's output left on the page
Interact ==
    /\ run_pc = "wait"
    /\ \E e \in EventsOn(screen) : event' = e
    /\ run_pc' = "auth"
    /\ shown_error' = NoError
    /\ snapshot' = NoSnapshot
    /\ UNCHANGED <<session_state, screen, leads_cache, runIn>>

\* AUTHENTICATION: the default of session_state.authed, the login form with
\* its Login and Clear buttons, st.stop()
AuthGate ==
    /\ run_pc = "auth"
    /\ LET authed == IF "authed" \in DOMAIN session_state
                     THEN session_state.authed ELSE FALSE
       IN  IF authed
           THEN /\ run_pc' = "main"
                /\ UNCHANGED <<session_state, event, screen, shown_error>>
           ELSE IF event.kind = "login" /\ credentials_ok(event.username, event.password)
           THEN /\ session_state' = [authed |-> TRUE]
                /\ event' = NoEvent
                /\ run_pc' = "auth"
                /\ UNCHANGED <<screen, shown_error>>
           ELSE IF event.kind = "clear"
           THEN /\ session_state' = [authed |-> FALSE]
                /\ event' = NoEvent
                /\ run_pc' = "auth"
                /\ UNCHANGED <<screen, shown_error>>
           ELSE /\ session_state' = [authed |-> FALSE]
                /\ shown_error' = IF event.kind = "login"
                                  THEN Error("credentials", <<>>) ELSE NoError
                /\ screen' = "login"
                /\ run_pc' = "wait"
                /\ UNCHANGED event
    /\ UNCHANGED <<leads_cache, runIn, snapshot>>

\* MAIN APP: the Refresh Data and Logout buttons
Controls ==
    /\ run_pc = "main"
    /\ IF event.kind = "refresh"
       THEN /\ leads_cache' = <<>>
            /\ event' = NoEvent
            /\ run_pc' = "auth"
            /\ UNCHANGED session_state
       ELSE IF event.kind = "logout"
       THEN /\ session_state' = [authed |-> FALSE]
            /\ event' = NoEvent
            /\ run_pc' = "auth"
            /\ UNCHANGED leads_cache
       ELSE /\ run_pc' = "load"
            /\ UNCHANGED <<session_state, event, leads_cache>>
    /\ UNCHANGED <<screen, runIn, shown_error, snapshot>>

\* LOAD DATA: load_leads_from_google_sheets behind st.cache_data; its
\* ValueError is shown and the run stops
LoadData ==
    /\ run_pc = "load"
    /\ LET missing == Take(required_leads_cols,
                           {i \in 1..Len(required_leads_cols) :
                               required_leads_cols[i] \notin sheet.cols})
       IN  IF leads_cache # <<>>
           THEN /\ run_pc' = "report"
                /\ UNCHANGED <<leads_cache, screen, shown_error>>
           ELSE IF missing # <<>>
           THEN /\ shown_error' = Error("leads", missing)
                /\ screen' = "main"
                /\ run_pc' = "wait"
                /\ UNCHANGED leads_cache
           ELSE /\ leads_cache' = <<load_rows(sheet.cols, sheet.rows, SidebarCutoff)>>
                /\ run_pc' = "report"
                /\ UNCHANGED <<screen, shown_error>>
    /\ UNCHANGED <<session_state, event, runIn, snapshot>>

\* raw_pay = read_agent_report(agent_file), the empty-report warning and the
\* required_pay_cols test
ReadAgentReport ==
    /\ run_pc = "report"
    /\ LET missing_pay == Take(required_pay_cols,
                               {i \in 1..Len(required_pay_cols) :
                                   required_pay_cols[i] \notin agent_file.cols})
       IN  IF ~agent_file.uploaded
           THEN /\ shown_error' = Error("empty", <<>>)
                /\ screen' = "main"
                /\ run_pc' = "wait"
           ELSE IF missing_pay # <<>>
           THEN /\ shown_error' = Error("pay", missing_pay)
                /\ screen' = "main"
                /\ run_pc' = "wait"
           ELSE /\ run_pc' = "process"
                /\ UNCHANGED <<screen, shown_error>>
    /\ UNCHANGED <<session_state, event, leads_cache, runIn, snapshot>>

\* AGENT SELECTION to the end of the script: the agent of the report, the
\* agent of the Leads Bank (none: the run stops), the total row, the hours,
\* the lead counts, the KPI and salary figures, the Reset Edits button
Process ==
    /\ run_pc = "process"
    /\ LET leads2_ == leads_cache[1]
           agent_name == Strip(str(agent_file.rows[1][NameCol]))
           pay_agent == Take(agent_file.rows,
                             {i \in 1..Len(agent_file.rows) :
                                 Strip(str(agent_file.rows[i][NameCol])) = agent_name})
           at == find_total_row(agent_file.cols, pay_agent)
           trow == IF at.row = 0 THEN NoRow ELSE FoundRow(pay_agent[at.row])
           choice == Strip(str(leads2_[1][AgentName]))
           leads_f_ == Take(leads2_,
                            {i \in 1..Len(leads2_) :
                                Strip(str(leads2_[i][AgentName])) = choice})
       IN  IF leads2_ = <<>>
           THEN /\ shown_error' = Error("agents", <<>>)
                /\ screen' = "main"
                /\ run_pc' = "wait"
                /\ UNCHANGED <<event, snapshot>>
           ELSE IF event.kind = "reset"
           THEN /\ event' = NoEvent
                /\ run_pc' = "auth"
                /\ UNCHANGED <<screen, shown_error, snapshot>>
           ELSE /\ snapshot' = payroll_of(trow, payable_leads_of(sheet.cols, leads_f_),
                                          "Full-time", SidebarRate, SidebarFullAmount)
                /\ screen' = "full"
                /\ run_pc' = "wait"
                /\ UNCHANGED <<event, shown_error>>
    /\ UNCHANGED <<session_state, leads_cache, runIn>>

Next ==
    (Interact \/ AuthGate \/ Controls \/ LoadData \/ ReadAgentReport \/ Process)
        /\ UNCHANGED <<durVars, bdVars, trVars, wdVars, payVars, ldVars>>

Init == RunInit /\ DurIdle /\ BdIdle /\ TrIdle /\ WdIdle /\ PayIdle /\ LdIdle

Spec == Init /\ [][Next]_vars

InitDur == DurInit /\ BdIdle /\ TrIdle /\ WdIdle /\ PayIdle /\ LdIdle /\ RunIdle

SpecDur == InitDur /\ [][DurNext]_vars

InitDate == BdInit /\ DurIdle /\ TrIdle /\ WdIdle /\ PayIdle /\ LdIdle /\ RunIdle

SpecDate == InitDate /\ [][BdNext]_vars

InitTotal == TrInit /\ DurIdle /\ BdIdle /\ WdIdle /\ PayIdle /\ LdIdle /\ RunIdle

SpecTotal == InitTotal /\ [][TrNext]_vars

InitDays == WdInit /\ DurIdle /\ BdIdle /\ TrIdle /\ PayIdle /\ LdIdle /\ RunIdle

SpecDays == InitDays /\ [][WdNext]_vars

InitPay == PayInit /\ DurIdle /\ BdIdle /\ TrIdle /\ WdIdle /\ LdIdle /\ RunIdle

SpecPay == InitPay /\ [][PayNext]_vars

InitLeads == LdInit /\ DurIdle /\ BdIdle /\ TrIdle /\ WdIdle /\ PayIdle /\ RunIdle

SpecLeads == InitLeads /\ [][LdNext]_vars

(***************************************************************************)
(* Claims on parse_duration_to_hours                                       *)
(***************************************************************************)
\* the amount written in the first group of unit u, 0 when there is none
FirstWritten(gs, u) ==
    LET at == {i \in 1..Len(gs) : gs[i].u = u}
    IN  IF at = {} THEN 0 ELSE gs[CHOOSE i \in at : \A j \in at : i <= j].n

WrittenSeconds(gs) ==
    3600 * FirstWritten(gs, "hour") + 60 * FirstWritten(gs, "min") + FirstWritten(gs, "sec")

NoRepeatedUnit(gs) ==
    \A i, j \in 1..Len(gs) : (i # j /\ gs[i].u # "none") => gs[i].u # gs[j].u

DurParsed == dur_pc \in {"parsed", "reparsed"}

\* C4 as stated: whatever the text, writing its unit groups in another
\* order leaves the parsed hours unchanged.
C4_AnyPermutationSameResult ==
    dur_pc = "reparsed" => dur_result = dur_first

\* C4 as amended: the result is hours + minutes/60 + seconds/3600 with each
\* amount read from the first group of its own unit (0 when the unit is
\* absent); and a text in which no unit occurs in more than one group gives
\* the same result in every order of its groups.
C4_UnitSumAndOrder ==
    /\ (DurParsed /\ dur_val.k = "str") => dur_result = WrittenSeconds(dur_groups)
    /\ (dur_pc = "reparsed" /\ NoRepeatedUnit(dur_orig)) => dur_result = dur_first

\* "35 min. 42 Hours", first written "42 Hours 35 min.", parsed to 42 h 35 min
C4_Witness ==
    /\ dur_pc = "reparsed"
    /\ Len(dur_groups) = 2
    /\ dur_groups[1].u = "min" /\ dur_groups[2].u = "hour"
    /\ dur_orig = <<dur_groups[2], dur_groups[1]>>
    /\ dur_result = 3600 * 42 + 60 * 35
    /\ dur_first = dur_result

NRows == Len(tr_rows)

\* heuristic 1: the rows whose Day/date is "-"
DashRows ==
    IF DayDate \in tr_cols
    THEN {i \in 1..NRows : Strip(str(tr_rows[i][DayDate])) = <<"-">>}
    ELSE {}

\* heuristic 2: the rows whose Day/date is null or empty
EmptyRows ==
    IF DayDate \in tr_cols
    THEN {i \in 1..NRows : isna(tr_rows[i][DayDate]) \/ Strip(str(tr_rows[i][DayDate])) = <<>>}
    ELSE {}

\* the rows with a numeric days-worked value
NumericRows ==
    IF DaysWork \in tr_cols
    THEN {i \in 1..NRows : to_numeric(tr_rows[i][DaysWork]).ok}
    ELSE {}

DaysOf(i) == to_numeric(tr_rows[i][DaysWork]).v

\* heuristic 3: the rows holding the maximum numeric days-worked value
MaxDaysRows == {i \in NumericRows : \A j \in NumericRows : DaysOf(j) <= DaysOf(i)}

\* heuristic 4: the last row, when its Day/date is no date
NonDateLastRow ==
    IF DayDate \in tr_cols /\ NRows > 0 /\ ~is_date_value(tr_rows[NRows][DayDate])
    THEN {NRows}
    ELSE {}

\* the candidates of the first heuristic of the chain hs that has any
FirstCandidates(hs) ==
    LET some == {k \in 1..Len(hs) : hs[k] # {}}
    IN  hs[MinOf(some)]

\* C6 as stated: the returned row is a candidate of the first of the five
\* heuristics that has one, heuristic 3 having the rows of maximum numeric
\* days-worked as its candidates.
C6_FirstHeuristicWins ==
    (tr_pc = "found" /\ NRows > 0) =>
        tr_total.row \in
            FirstCandidates(<<DashRows, EmptyRows, MaxDaysRows, NonDateLastRow, {NRows}>>)

\* C6 as amended: the same, heuristic 3 having candidates only when some
\* row's numeric days-worked value is above zero; in particular a row set
\* with a "-" row yields a "-" row.
C6_FirstHeuristicWinsPositive ==
    (tr_pc = "found" /\ NRows > 0) =>
        /\ tr_total.row \in
              FirstCandidates(<<DashRows, EmptyRows,
                                IF \E i \in NumericRows : DaysOf(i) > 0 THEN MaxDaysRows ELSE {},
                                NonDateLastRow, {NRows}>>)
        /\ (DashRows # {} => tr_total.row \in DashRows)

\* a "-" row ahead of a dated row with 22 days worked: the "-" row is returned
C6_Witness ==
    /\ tr_pc = "found"
    /\ NRows = 2
    /\ DashRows = {1}
    /\ EmptyRows = {}
    /\ MaxDaysRows = {2}
    /\ DaysOf(2) = 44
    /\ tr_total.row = 1

\* some row has a numeric days-worked value above zero
SomePositiveDays == \E i \in NumericRows : DaysOf(i) > 0

\* heuristic 3 as the code enters it: the rows of maximum days-worked, when
\* some value is above zero
PositiveMaxRows == IF SomePositiveDays THEN MaxDaysRows ELSE {}

\* C14 as stated: the returned row is the last candidate, in row order, of
\* the first heuristic that has candidates: for heuristic 1, for heuristic 2
\* and for heuristic 3 when several rows share the maximum days-worked.
C14_LastCandidate ==
    (tr_pc = "found" /\ NRows > 0) =>
        tr_total.row
            = MaxOf(FirstCandidates(<<DashRows, EmptyRows, PositiveMaxRows, {NRows}>>))

\* C14 as amended: the last candidate for heuristics 1 and 2; for heuristic 3
\* the first, in row order, of the rows that share the maximum days-worked.
C14_LastCandidateFirstMaximum ==
    (tr_pc = "found" /\ NRows > 0) =>
        /\ DashRows # {} => tr_total.row = MaxOf(DashRows)
        /\ (DashRows = {} /\ EmptyRows # {}) => tr_total.row = MaxOf(EmptyRows)
        /\ (DashRows = {} /\ EmptyRows = {} /\ PositiveMaxRows # {}) =>
              tr_total.row = MinOf(PositiveMaxRows)

\* two rows with the same positive days-worked and no "-" or empty Day/date:
\* the first is returned
C14_Witness ==
    /\ tr_pc = "found"
    /\ NRows = 2
    /\ DashRows = {}
    /\ EmptyRows = {}
    /\ PositiveMaxRows = {1, 2}
    /\ tr_total.row = 1

\* C15 as stated: with no "-" and no empty Day/date and some numeric
\* days-worked value, the returned row holds the maximum numeric days-worked
\* value, also when every numeric value is zero or negative.
C15_MaximumOfNumeric ==
    (tr_pc = "found" /\ DashRows = {} /\ EmptyRows = {} /\ NumericRows # {}) =>
        tr_total.row \in MaxDaysRows

\* C15 as amended: the same when some numeric days-worked value is above
\* zero; when every numeric value is zero or negative the last row is
\* returned.
C15_MaximumWhenPositive ==
    (tr_pc = "found" /\ DashRows = {} /\ EmptyRows = {} /\ NumericRows # {}) =>
        /\ SomePositiveDays => tr_total.row \in MaxDaysRows
        /\ ~SomePositiveDays => tr_total.row = NRows

\* days-worked 0 then -1, no Day/date column: the maximum is in row 1, the
\* last row is returned
C15_Witness ==
    /\ tr_pc = "found"
    /\ tr_cols = {DaysWork}
    /\ NRows = 2
    /\ NumericRows = {1, 2}
    /\ DaysOf(1) = 0
    /\ DaysOf(2) < 0
    /\ tr_total.row = 2

\* C7: find_total_row returns None exactly for the empty row set, and for
\* every other row set one of its rows, whatever columns are present.
C7_RowUnlessEmpty ==
    tr_pc = "found" =>
        /\ (tr_total.row = 0 <=> NRows = 0)
        /\ (NRows > 0 => tr_total.row \in 1..NRows)

\* neither Day/date nor Days Work is a column: the last row is returned
C7_Witness ==
    /\ tr_pc = "found"
    /\ tr_cols = {}
    /\ NRows = 2
    /\ tr_total = Found(2, 5)

(***************************************************************************)
(* Claims on extract_working_days                                          *)
(***************************************************************************)
\* column k is present in the row and holds a number
NumericAt(k) ==
    /\ possible_columns[k] \in DOMAIN wd_row
    /\ to_numeric(wd_row[possible_columns[k]]).ok

HalvesAt(k) == to_numeric(wd_row[possible_columns[k]]).v

\* the first column of possible_columns in the set ks, 0 when there is none
FirstColumn(ks) == IF ks = {} THEN 0 ELSE MinOf(ks)

\* the integer part of a number of halves that is not negative
WholeDays(h) == h \div 2

\* C8 as stated: the result is the integer of the first column that is
\* present, numeric and positive, and 0 when there is none.
C8_FirstPositiveColumn ==
    wd_pc = "done" =>
        LET k == FirstColumn({j \in 1..Len(possible_columns) : NumericAt(j) /\ HalvesAt(j) > 0})
        IN  wd_days = IF k = 0 THEN 0 ELSE WholeDays(HalvesAt(k))

\* C8 as amended: the result is the integer part of the first column that
\* is present, numeric and at least 1, and 0 when there is none; it is
\* always an integer >= 0.
C8_FirstColumnAtLeastOne ==
    wd_pc = "done" =>
        LET k == FirstColumn({j \in 1..Len(possible_columns) : NumericAt(j) /\ HalvesAt(j) >= 2})
        IN  /\ wd_days = IF k = 0 THEN 0 ELSE WholeDays(HalvesAt(k))
            /\ wd_days \in Nat

\* "Days Work" holds 0.5 and "Days" holds " 3 ": the result is 3
C8_Witness ==
    /\ wd_pc = "done"
    /\ DOMAIN wd_row = {"Days Work", "Days"}
    /\ wd_row["Days Work"] = Num(1)
    /\ wd_row["Days"] = Str(<<" ", "3", " ">>)
    /\ wd_days = 3

(***************************************************************************)
(* Claims on the KPI and salary arithmetic                                 *)
(***************************************************************************)
KpiDone == pay_pc \in {"kpi", "done"}

\* performance_pct compared with a whole number of percent
PctLess(k) == performance_pct.n < k * performance_pct.d

PctIs(k) == performance_pct.n = k * performance_pct.d

\* C1: the tier is 0 below 60 percent, 0.5 from 60 up to but not including
\* 80, 0.8 from 80 up to but not including 100 and 1.0 from 100 on; exactly
\* 60, 80 and 100 percent give 0.5, 0.8 and 1.0.
C1_TierStepFunction ==
    KpiDone =>
        /\ (tier = 0 <=> PctLess(60))
        /\ (tier = 50 <=> ~PctLess(60) /\ PctLess(80))
        /\ (tier = 80 <=> ~PctLess(80) /\ PctLess(100))
        /\ (tier = 100 <=> ~PctLess(100))
        /\ (PctIs(60) => tier = 50)
        /\ (PctIs(80) => tier = 80)
        /\ (PctIs(100) => tier = 100)

\* 6 payable leads against a target of 10: exactly 60 percent, tier 0.5
C1_Witness ==
    /\ pay_pc = "kpi"
    /\ payable_leads = 6
    /\ leads_target = 20
    /\ PctIs(60)
    /\ tier = 50

\* the scenario of the specification: 10 days, Full-time, 16 payable leads,
\* full KPI amount 1000, 72 net hours, rate 10
Scenario ==
    /\ working_days = 10 /\ agent_type = "Full-time" /\ payable_leads = 16
    /\ kpis_full_amount = 1000 /\ payable_hours = 72 * 3600 /\ hourly_rate = 20

\* C9: base_salary = payable_hours_net x hourly_rate, kpi_bonus =
\* kpi_full_amount x tier and total_salary = base_salary + kpi_bonus, unrounded;
\* the scenario gives target 20, performance 80, tier 0.8, bonus 800, base
\* 720 and total 1520.
C9_SalaryFormula ==
    pay_pc = "done" =>
        /\ base_salary = payable_hours * hourly_rate
        /\ 100 * kpi_bonus = MoneyScale * kpis_full_amount * tier
        /\ total_salary = base_salary + kpi_bonus
        /\ Scenario =>
              /\ leads_target = 2 * 20
              /\ PctIs(80)
              /\ tier = 80
              /\ kpi_bonus = 800 * MoneyScale
              /\ base_salary = 720 * MoneyScale
              /\ total_salary = 1520 * MoneyScale

\* 8 h 56 min 10 s at rate 12.5 with a part bonus: a total that is no whole
\* number of currency units
C9_Witness ==
    /\ pay_pc = "done"
    /\ payable_hours = 8 * 3600 + 56 * 60 + 10
    /\ hourly_rate = 25
    /\ kpi_bonus > 0
    /\ total_salary % MoneyScale # 0
    /\ total_salary = base_salary + kpi_bonus

\* C10: the net payable hours are payable_hours_raw - break_hours floored at
\* zero: never negative, exactly 0 when the break exceeds the raw figure or
\* no total row was found; base salary is computed from that value.
C10_NetHoursFloored ==
    /\ pay_pc \in {"hours", "kpi", "done"} =>
          /\ payable_hours >= 0
          /\ (break_hours > payable_hours_raw => payable_hours = 0)
          /\ (break_hours <= payable_hours_raw => payable_hours = payable_hours_raw - break_hours)
          /\ (~total_row.found => payable_hours = 0)
    /\ pay_pc = "done" => (base_salary >= 0 /\ base_salary = hourly_rate * payable_hours)

\* 72 hours payable against an 80 hour break: net 0
C10_Witness ==
    /\ pay_pc = "done"
    /\ total_row.found
    /\ payable_hours_raw = 72 * 3600
    /\ break_hours = 80 * 3600
    /\ payable_hours = 0
    /\ hourly_rate > 0
    /\ base_salary = 0

\* target_per_day as the claim states it: 2.0 leads a day for Full-time, 1.5
\* for Part-time, in halves of a lead
PerDayHalves == IF agent_type = "Full-time" THEN 2 * 2 ELSE 2 + 1

\* C11: leads_target = working_days x target_per_day (2.0 Full-time, 1.5
\* Part-time); performance_pct = payable_leads / leads_target x 100 when
\* leads_target > 0 and exactly 0 otherwise; with zero working days the
\* performance is 0 and the tier is 0, whatever payable_leads is.
C11_TargetAndPerformance ==
    KpiDone =>
        /\ leads_target = working_days * PerDayHalves
        /\ performance_pct.d > 0
        /\ (leads_target > 0 =>
               performance_pct.n * leads_target = 100 * 2 * payable_leads * performance_pct.d)
        /\ (~(leads_target > 0) => performance_pct.n = 0)
        /\ (working_days = 0 => performance_pct.n = 0 /\ tier = 0)

\* a total row without a positive day count, 5 payable leads: performance 0
C11_Witness ==
    /\ pay_pc = "kpi"
    /\ total_row.found
    /\ working_days = 0
    /\ payable_leads = 5
    /\ performance_pct.n = 0
    /\ tier = 0

(***************************************************************************)
(* Claims on the script run                                                *)
(***************************************************************************)
\* the columns the hours export must have: Name, Day/date and the duration
\* columns the payroll figures are read from
RequiredHours == {NameCol, DayDate, PayableT, BreakT}

\* the Leads Bank sheet has its three named columns and a push indicator
LeadsSchemaComplete ==
    /\ {TimestampCol, AgentName, LeadResult} \subseteq sheet.cols
    /\ sheet.cols \cap {LeadStatus, PushedToClient} # {}

\* C12: a run whose hours export lacks Name, Day/date or a duration column, or
\* whose leads export lacks Timestamp, Agent Name, Lead Result or both of
\* Lead Status and Pushed to Client, computes no payroll figure.
C12_NoSnapshotOverMissingColumn ==
    snapshot.computed =>
        /\ RequiredHours \subseteq agent_file.cols
        /\ LeadsSchemaComplete

\* st.session_state.authed is set and true
Authed == "authed" \in DOMAIN session_state /\ session_state.authed

\* C17: the run is past the login form, loads data or holds payroll figures
\* only while authed is true; authed starts false, becomes true only in the
\* run of a login submit whose username and password are both the configured
\* ones, becomes false again only through Logout, and the run that follows a
\* Logout stops at the login form.
C17_AuthedGuardsTheRun ==
    /\ [](/\ run_pc \in {"main", "load", "report", "process"} => Authed
          /\ snapshot.computed => Authed
          /\ (screen = "none" /\ run_pc = "wait") => ~Authed)
    /\ [][/\ (leads_cache' # leads_cache /\ leads_cache' # <<>>) => Authed
          /\ (~Authed /\ Authed') =>
                /\ run_pc = "auth"
                /\ event.kind = "login"
                /\ event.username = "admin"
                /\ event.password = "Dfu-va@admin"
          /\ (Authed /\ ~Authed') => (run_pc = "main" /\ event.kind = "logout")
          /\ (run_pc = "auth" /\ ~Authed /\ event.kind \notin {"login", "clear"}) =>
                (run_pc' = "wait" /\ screen' = "login" /\ ~Authed')]_vars

\* logged in, data loaded, then logged out: the page is the login form again
C17_Witness ==
    /\ run_pc = "wait"
    /\ screen = "login"
    /\ leads_cache # <<>>
    /\ ~Authed

(***************************************************************************)
(* Claims on the lead counts                                               *)
(***************************************************************************)
\* the sheet has exactly one of the two push-indicator columns
OneIndicator == Cardinality(leads_cols \cap {LeadStatus, PushedToClient}) = 1

\* the present indicator column marks row r as forwarded to the client
MarkedPushed(r) ==
    IF LeadStatus \in leads_cols
    THEN safe_lower(r[LeadStatus]) = T_pushed_to_client
    ELSE safe_lower(r[PushedToClient]) \in pushed_values

QualifiedAndPushed(r) == safe_lower(r[LeadResult]) = T_qualified /\ MarkedPushed(r)

\* C2: with exactly one of Lead Status and Pushed to Client present,
\* payable_leads is the number of filtered rows that are qualified and that
\* the present column marks as pushed to the client.
C2_PayableIsQualifiedAndPushed ==
    (ld_pc = "counted" /\ OneIndicator) =>
        lead_counts.payable
            = Cardinality({i \in 1..Len(leads_f) : QualifiedAndPushed(leads_f[i])})

(***************************************************************************)
(* Claims on the business date                                             *)
(***************************************************************************)
\* the date the claim gives for timestamp ts under cutoff hour c
ShiftedDate(ts, c) == IF ts.hour < c THEN ts.date - 1 ELSE ts.date

\* C3: wherever a business date is derived it is date(t) - 1 day when t's
\* hour of day is below the cutoff in force there, and date(t) otherwise.
C3_BusinessDateShift ==
    /\ bd_pc \in {"app", "done"} => bd_app = ShiftedDate(bd_ts, bd_cutoff)
    /\ bd_pc = "done" => bd_gen = ShiftedDate(bd_ts, ReportCutoffHours)

\* 06:30 under cutoff 7 falls on the previous day in both places
C3_Witness ==
    /\ bd_pc = "done"
    /\ bd_ts = Timestamp(1, 6, 30)
    /\ bd_cutoff = 7
    /\ bd_app = 0
    /\ bd_gen = 0

(***************************************************************************)
(* Claims on the filter of the lead counts                                 *)
(***************************************************************************)
\* the rows of the sheet that belong to the chosen agent and whose business
\* date lies in the chosen range
Matching ==
    {i \in 1..Len(leads) :
        /\ leads[i][TimestampCol].k = "ts"
        /\ Strip(leads[i][AgentName].s) = Strip(lead_agent_choice)
        /\ start_date <= ShiftedDate(leads[i][TimestampCol], cutoff_hour)
        /\ ShiftedDate(leads[i][TimestampCol], cutoff_hour) <= end_date}

\* the matching rows whose Lead Result, trimmed and lower-cased, is t
WithResult(t) == {i \in Matching : Lower(Strip(leads[i][LeadResult].s)) = t}

\* C13: the counts are taken over exactly the rows whose trimmed Agent Name
\* is the trimmed target agent and whose business date d has start <= d <=
\* end; qualified, disqualified and callbacks count the rows whose normalized
\* Lead Result is "qualified", "disqualified" and "call back"; with no
\* matching row all four counts are 0.
C13_CountsOverAgentAndRange ==
    ld_pc = "counted" =>
        /\ Len(leads_f) = Cardinality(Matching)
        /\ lead_counts.qualified = Cardinality(WithResult(T_qualified))
        /\ lead_counts.disqualified = Cardinality(WithResult(T_disqualified))
        /\ lead_counts.callbacks = Cardinality(WithResult(T_call_back))
        /\ (Matching = {} => lead_counts = Counts(0, 0, 0, 0))

\* two qualified leads of the agent on day 1, one at 06:30 shifted to day 0
\* by the cutoff of 7: the range of day 1 alone counts one of them
C13_Witness ==
    /\ ld_pc = "counted"
    /\ cutoff_hour = 7
    /\ Len(leads) = 2
    /\ leads[1][TimestampCol] = Timestamp(1, 6, 30)
    /\ leads[2][TimestampCol] = Timestamp(1, 8, 0)
    /\ \A i \in 1..2 : leads[i][AgentName].s = T_Jane /\ leads[i][LeadResult].s = T_Qualified
    /\ start_date = 1
    /\ end_date = 1
    /\ lead_counts.qualified = 1

(***************************************************************************)
(* Claims on unparseable timestamps                                        *)
(***************************************************************************)
\* the rows of the sheet whose Timestamp is a time
ValidRows == {i \in 1..Len(leads) : leads[i][TimestampCol].k = "ts"}

\* the rows the report script counts: qualified and pushed, with a time
ReportedRows ==
    {i \in ValidRows :
        /\ Lower(Strip(leads[i][LeadResult].s)) = T_qualified
        /\ Lower(Strip(leads[i][LeadStatus].s)) = T_pushed_to_client}

\* the sum of the values of a function with a finite domain
RECURSIVE SumOf(_)
SumOf(f) ==
    IF DOMAIN f = {} THEN 0
    ELSE LET x == CHOOSE y \in DOMAIN f : TRUE
         IN  f[x] + SumOf([y \in DOMAIN f \ {x} |-> f[y]])

\* C16: a row whose Timestamp is no time is dropped and the rows with a time
\* are still processed, without failure, wherever business dates are derived:
\* in load_leads_from_google_sheets and in load_qualified_pushed_leads.
C16_UnparseableTimestampDropped ==
    /\ ld_pc \in {"loaded", "counted"} =>
          /\ load_error = <<>>
          /\ Len(leads2) = Cardinality(ValidRows)
    /\ (ld_pc = "reported"
            /\ {TimestampCol, AgentName, LeadResult, LeadStatus} \subseteq leads_cols) =>
          /\ report_counts.ok
          /\ SumOf(report_counts.counts) = Cardinality(ReportedRows)

====
